---- MODULE Spec2Model ----
(***************************************************************************)
(* A model of the bitset constraint-propagation + backtracking solver of   *)
(* better_board_reconstruct.py.                                            *)
(*                                                                         *)
(* Bitsets (Python ints used as bit masks) are modelled as sets of bit     *)
(* indices: x & y is intersection, x | y is union, x == 0 is emptiness,    *)
(* bitcount is cardinality, 1 << k is {k}.  Letters are the indices        *)
(* ord(ch) - 65, word IDs are the 0-based positions in words_by_len[L].    *)
(* Python lists are objects: a search frame holds references into a heap   *)
(* of lists, propagate() mutates the referenced lists in place and         *)
(* solve() copies them at a branch point.                                  *)
(***************************************************************************)
EXTENDS Integers, Sequences, FiniteSets, TLC

VARIABLES
    paths,       \* main's paths: per path ID (0-based) the sequence of linear cell IDs
    n_cells,     \* main's n_cells = nrows * ncols
    words_by_len,\* load_dictionary(): per length the words (letter indices), in file order
    index,       \* build_index(): index[L][pos][letter] = the word IDs (0-based) of length L
    dheap,       \* the live `domains` lists (one list object per entry)
    pheap,       \* the live `path_cands` lists
    stack,       \* the chain of nested solve() calls, root first
    res,         \* the value of the last `return` of solve()
    round,       \* 0: solve() driven by main(); 1, 2: first / second run of propagate() alone
    in_state,    \* the (domains, path_cands) propagate() was first called with
    fix_state    \* the (domains, path_cands) the first run of propagate() left

vars == <<paths, n_cells, words_by_len, index, dheap, pheap, stack, res, round, in_state, fix_state>>

----------------------------------------------------------------------------
(* Bounds of the model *)

MaxWords == 3     \* dictionary lines
MaxPaths == 2     \* paths in the paths file
MaxDepth == 4     \* nested solve() calls explored

(* The 26-letter alphabet: ALL = (1 << 26) - 1 *)
AlphabetSize == 26
ALL == 0 .. (AlphabetSize - 1)

(* The words a dictionary file is drawn from, as letter indices ord(ch) - 65: *)
(* A, AB, BA, BB                                                              *)
WordPool == { <<0>>, <<0, 1>>, <<1, 0>>, <<1, 1>> }

(* The paths a paths file is drawn from, as (row, column) pairs on a 2 x 2 board *)
PathPool ==
    { << <<0, 0>>, <<0, 1>> >>,
      << <<0, 1>>, <<1, 1>> >>,
      << <<1, 0>>, <<1, 1>> >>,
      << <<0, 1>> >>,
      << <<0, 0>>, <<0, 0>> >> }

SeqsUpTo(S, n) == UNION { [1 .. k -> S] : k \in 0 .. n }
NonEmptySeqsUpTo(S, n) == UNION { [1 .. k -> S] : k \in 1 .. n }

----------------------------------------------------------------------------
(* Helpers *)

MaxOf(S) == IF S = {} THEN 0 ELSE CHOOSE m \in S : \A x \in S : x <= m

(* iter_bits yields the set bits lowest first: the next one is the least *)
iter_bits(x) == CHOOSE m \in x : \A y \in x : m <= y

bitcount(x) == Cardinality(x)

----------------------------------------------------------------------------
(* load_paths, for the coordinate paths raw of PATHS_FILE (file order) *)

(* every (r, c) of every path *)
AllCoords(raw) == UNION { { raw[i][j] : j \in 1 .. Len(raw[i]) } : i \in 1 .. Len(raw) }

nrows(raw) == MaxOf({ rc[1] : rc \in AllCoords(raw) }) + 1
ncols(raw) == MaxOf({ rc[2] : rc \in AllCoords(raw) }) + 1
max_len(raw) == MaxOf({ Len(raw[i]) : i \in 1 .. Len(raw) })

(* main, lines 246-251: cell_ids = [r * ncols + c for (r, c) in coords] *)
main_paths(raw) ==
    [pid \in 0 .. (Len(raw) - 1) |->
        [j \in 1 .. Len(raw[pid + 1]) |->
            raw[pid + 1][j][1] * ncols(raw) + raw[pid + 1][j][2]]]

main_n_cells(raw) == nrows(raw) * ncols(raw)

NumPaths == Cardinality(DOMAIN paths)
PathIds == DOMAIN paths
Cells == 0 .. (n_cells - 1)
PathLen(pid) == Len(paths[pid])

----------------------------------------------------------------------------
(* load_dictionary, for the alphabetic, uppercased lines of DICT_FILE (file   *)
(* order): words_by_len[L] for the lengths 1 <= L <= max_len that occur       *)

HasLen(L, w) == Len(w) = L

load_dictionary(lines, maxlen) ==
    [L \in { Len(lines[i]) : i \in 1 .. Len(lines) } \cap (1 .. maxlen) |->
        SelectSeq(lines, LAMBDA w : HasLen(L, w))]

(* build_index: index[L][pos][letter] is the set of the IDs (0-based list      *)
(* positions) of the words of length L with that letter at pos, and            *)
(* all_mask[L] = (1 << m) - 1, for the lengths that have a word                *)
build_index(wbl) ==
    [L \in { K \in DOMAIN wbl : Len(wbl[K]) # 0 } |->
        [pos \in 0 .. (L - 1) |->
            [letter \in ALL |->
                { wid \in 0 .. (Len(wbl[L]) - 1) : wbl[L][wid + 1][pos + 1] = letter }]]]

InIndex(L) == L \in DOMAIN index

all_mask(L) == 0 .. (Len(words_by_len[L]) - 1)

----------------------------------------------------------------------------
(* allowed_words_for_pos: OR of the position's letter bitsets over the allowed letters *)
allowed_words_for_pos(L, pos, allowed_letters_mask) ==
    UNION { index[L][pos][letter] : letter \in allowed_letters_mask }

(* compute_path_candidates: the loop over the positions, from position pos on *)
RECURSIVE CandLoop(_, _, _, _)
CandLoop(pid, domains, pos, cand) ==
    IF pos >= PathLen(pid) THEN cand
    ELSE LET allowed == domains[paths[pid][pos + 1]]
         IN  IF allowed = {} THEN {}
             ELSE LET c2 == cand \cap allowed_words_for_pos(PathLen(pid), pos, allowed)
                  IN  IF c2 = {} THEN {} ELSE CandLoop(pid, domains, pos + 1, c2)

compute_path_candidates(pid, domains) ==
    IF ~InIndex(PathLen(pid)) THEN {}
    ELSE CandLoop(pid, domains, 0, all_mask(PathLen(pid)))

(* possible_letters_at_pos reading the table of position 0 whatever pos is *)
possible_letters_at_first_pos(cands, L, pos) ==
    { letter \in ALL : cands \cap index[L][0][letter] # {} }

(* possible_letters_at_pos: the letters some candidate word has at this position *)
possible_letters_at_pos(cands, L, pos) ==
    { letter \in ALL : cands \cap index[L][pos][letter] # {} }

----------------------------------------------------------------------------
(* propagate: one pass of the while loop, in its three for loops *)

(* Lines 144-150.  Returns the list as mutated so far; ok = FALSE is `return False` *)
RECURSIVE PathStep(_, _, _, _)
PathStepFail(pid, path_cands, changed) ==
    [ok |-> FALSE, path_cands |-> path_cands, changed |-> changed]

PathStep(pid, domains, path_cands, changed) ==
    IF pid >= NumPaths
    THEN [ok |-> TRUE, path_cands |-> path_cands, changed |-> changed]
    ELSE LET new_pc == compute_path_candidates(pid, domains)
         IN  IF new_pc = {} THEN PathStepFail(pid, path_cands, changed)
             ELSE IF new_pc # path_cands[pid]
                  THEN PathStep(pid + 1, domains, [path_cands EXCEPT ![pid] = new_pc], TRUE)
                  ELSE PathStep(pid + 1, domains, path_cands, changed)

(* Lines 153-160: new_domains[cell], the AND over every (pid, pos) on the cell *)
Occurrences(cell) ==
    { pp \in PathIds \X (0 .. (MaxOf({ PathLen(p) : p \in PathIds }) - 1)) :
        pp[2] < PathLen(pp[1]) /\ paths[pp[1]][pp[2] + 1] = cell }

RECURSIVE AndLetters(_, _, _)
AndLetters(occ, path_cands, acc) ==
    IF occ = {} THEN acc
    ELSE LET pp == CHOOSE x \in occ : TRUE
         IN  AndLetters(occ \ {pp}, path_cands,
                 acc \cap possible_letters_at_pos(path_cands[pp[1]], PathLen(pp[1]), pp[2]))

new_domains(path_cands) == [cell \in Cells |-> AndLetters(Occurrences(cell), path_cands, ALL)]

(* Lines 163-169 without `changed = True` *)
RECURSIVE IntersectStepNoFlag(_, _, _, _)
IntersectStepNoFlag(i, nd, domains, changed) ==
    IF i >= n_cells
    THEN [ok |-> TRUE, domains |-> domains, changed |-> changed]
    ELSE LET d == nd[i] \cap domains[i]
         IN  IF d = {} THEN [ok |-> FALSE, domains |-> domains, changed |-> changed]
             ELSE IF d # domains[i]
                  THEN IntersectStepNoFlag(i + 1, nd, [domains EXCEPT ![i] = d], changed)
                  ELSE IntersectStepNoFlag(i + 1, nd, domains, changed)

(* Lines 163-169 comparing new_domains[i], not nd, with domains[i] *)
RECURSIVE IntersectStepStale(_, _, _, _)
IntersectStepStale(i, nd, domains, changed) ==
    IF i >= n_cells
    THEN [ok |-> TRUE, domains |-> domains, changed |-> changed]
    ELSE LET d == nd[i] \cap domains[i]
         IN  IF d = {} THEN [ok |-> FALSE, domains |-> domains, changed |-> changed]
             ELSE IF nd[i] # domains[i]
                  THEN IntersectStepStale(i + 1, nd, [domains EXCEPT ![i] = d], TRUE)
                  ELSE IntersectStepStale(i + 1, nd, domains, changed)

(* Lines 163-169.  Cells before a failing one have already been overwritten *)
RECURSIVE IntersectStep(_, _, _, _)
IntersectStep(i, nd, domains, changed) ==
    IF i >= n_cells
    THEN [ok |-> TRUE, domains |-> domains, changed |-> changed]
    ELSE LET d == nd[i] \cap domains[i]
         IN  IF d = {} THEN [ok |-> FALSE, domains |-> domains, changed |-> changed]
             ELSE IF d # domains[i]
                  THEN IntersectStep(i + 1, nd, [domains EXCEPT ![i] = d], TRUE)
                  ELSE IntersectStep(i + 1, nd, domains, changed)

(* One pass: status "fail" (return False), "again" (changed), "done" (return True) *)
PassResult(status, domains, path_cands) ==
    [status |-> status, domains |-> domains, path_cands |-> path_cands]

(* `return True` where line 147 returns False *)
ReturnTrueAtPath(domains, path_cands) == PassResult("done", domains, path_cands)

(* Line 147: `return False` out of the loop over the paths *)
ReturnFalseAtPath(domains, path_cands) == PassResult("fail", domains, path_cands)

propagate_pass(domains, path_cands) ==
    LET ps == PathStep(0, domains, path_cands, FALSE)
    IN  IF ~ps.ok THEN ReturnFalseAtPath(domains, ps.path_cands)
        ELSE LET nd == new_domains(ps.path_cands)
             IN  IF \E cell \in Cells : nd[cell] = {}
                 THEN PassResult("fail", domains, ps.path_cands)
                 ELSE LET is == IntersectStep(0, nd, domains, ps.changed)
                      IN  IF ~is.ok THEN PassResult("fail", is.domains, ps.path_cands)
                          ELSE PassResult(IF is.changed THEN "again" ELSE "done",
                                          is.domains, ps.path_cands)

----------------------------------------------------------------------------
(* solved, choose_branch_path *)

(* solved() answering on the first single-letter cell it meets *)
solved_any(domains) == \E i \in Cells : bitcount(domains[i]) <= 1

solved(domains) == \A i \in Cells : bitcount(domains[i]) <= 1

(* best_cnt = 10**9 *)
BestCntInit == 1000000000

(* the loop with cnt <= best_cnt: the last of the paths tied on the count *)
RECURSIVE ChooseLoopLast(_, _, _, _)
ChooseLoopLast(pid, path_cands, best, best_cnt) ==
    IF pid >= NumPaths THEN best
    ELSE LET cnt == bitcount(path_cands[pid])
         IN  IF 1 < cnt /\ cnt <= best_cnt
             THEN ChooseLoopLast(pid + 1, path_cands, pid, cnt)
             ELSE ChooseLoopLast(pid + 1, path_cands, best, best_cnt)

(* the loop of choose_branch_path from pid on; best = -1 is None *)
RECURSIVE ChooseLoop(_, _, _, _)
ChooseLoop(pid, path_cands, best, best_cnt) ==
    IF pid >= NumPaths THEN best
    ELSE LET cnt == bitcount(path_cands[pid])
         IN  IF 1 < cnt /\ cnt < best_cnt
             THEN ChooseLoop(pid + 1, path_cands, pid, cnt)
             ELSE ChooseLoop(pid + 1, path_cands, best, best_cnt)

choose_branch_path(path_cands) == ChooseLoop(0, path_cands, -1, BestCntInit)

----------------------------------------------------------------------------
(* solve: the call stack *)

(* d2 = domains / pc2 = path_cands: a second name for the same list object *)
AliasList(heap, ref) == [heap |-> heap, ref |-> ref]

(* d2 = domains[:] / pc2 = path_cands[:]: a new list object with the same items *)
CopyList(heap, ref) == [heap |-> Append(heap, heap[ref]), ref |-> Len(heap) + 1]

(* Lines 218-224: force the cells of the path to the letters of w, from pos on *)
RECURSIVE ForceLoop(_, _, _, _)
ForceLoop(pid, w, pos, d2) ==
    IF pos >= PathLen(pid) THEN [ok |-> TRUE, d2 |-> d2]
    ELSE LET cell == paths[pid][pos + 1]
             mask == { w[pos + 1] }
         IN  IF d2[cell] \cap mask = {} THEN [ok |-> FALSE, d2 |-> d2]
             ELSE ForceLoop(pid, w, pos + 1, [d2 EXCEPT ![cell] = mask])

None == [none |-> TRUE, domains |-> <<>>]
Some(domains) == [none |-> FALSE, domains |-> domains]

NoState == [domains |-> <<>>, path_cands |-> <<>>]
State(domains, path_cands) == [domains |-> domains, path_cands |-> path_cands]

(* A frame of solve(): its two list references, its position in the code, and   *)
(* the locals pid, candidates and the iterator over them.  tried (the word IDs  *)
(* already taken from the iterator) and passes (the passes of the while loop of *)
(* the frame's propagate() so far) are history, read by no action.              *)
NewFrame(d, p) ==
    [d |-> d, p |-> p, pc |-> "propagate", pid |-> -1, candidates |-> {}, it |-> {},
     tried |-> <<>>, passes |-> 0]

Top == stack[Len(stack)]
SetTop(f) == [stack EXCEPT ![Len(stack)] = f]

(* list objects no frame refers to are dropped *)
Live(heap, refs) == SubSeq(heap, 1, MaxOf(refs))
DRefs(stk) == { stk[i].d : i \in 1 .. Len(stk) }
PRefs(stk) == { stk[i].p : i \in 1 .. Len(stk) }

(* Line 196: one pass of propagate() on the frame's own lists *)
PropagateStep ==
    /\ stack # <<>>
    /\ Top.pc = "propagate"
    /\ \E r \in { propagate_pass(dheap[Top.d], pheap[Top.p]) } :
           /\ dheap' = [dheap EXCEPT ![Top.d] = r.domains]
           /\ pheap' = [pheap EXCEPT ![Top.p] = r.path_cands]
           /\ stack' = SetTop([Top EXCEPT !.passes = @ + 1, !.pc =
                            CASE r.status = "fail" -> "return"
                              [] r.status = "again" -> "propagate"
                              [] OTHER -> "check"])
           /\ res' = IF r.status = "fail" THEN None ELSE res
    /\ UNCHANGED <<paths, n_cells, words_by_len, index, round, in_state, fix_state>>

(* Lines 199-208 *)
CheckSolved ==
    /\ stack # <<>>
    /\ Top.pc = "check"
    /\ round = 0
    /\ LET domains == dheap[Top.d]
           path_cands == pheap[Top.p]
           pid == choose_branch_path(path_cands)
       IN  IF solved(domains)
           THEN /\ res' = Some(domains)
                /\ stack' = SetTop([Top EXCEPT !.pc = "return"])
           ELSE IF pid = -1
           THEN /\ res' = None
                /\ stack' = SetTop([Top EXCEPT !.pc = "return"])
           ELSE /\ res' = res
                /\ stack' = SetTop([Top EXCEPT !.pc = "branch", !.pid = pid,
                                        !.candidates = path_cands[pid],
                                        !.it = path_cands[pid]])
    /\ UNCHANGED <<paths, n_cells, words_by_len, index, index, dheap, pheap, round, in_state, fix_state>>

(* Line 210 with the iterator exhausted, line 233 *)
BranchExhausted ==
    /\ stack # <<>>
    /\ Top.pc = "branch"
    /\ Top.it = {}
    /\ res' = None
    /\ stack' = SetTop([Top EXCEPT !.pc = "return"])
    /\ UNCHANGED <<paths, n_cells, words_by_len, index, index, dheap, pheap, round, in_state, fix_state>>

(* Lines 210-229 for the next word ID: the child's lists and whether it is entered *)
Child(f, dh, ph) ==
    LET wid == iter_bits(f.it)
        w   == words_by_len[PathLen(f.pid)][wid + 1]
        dc  == CopyList(dh, f.d)
        pc  == CopyList(ph, f.p)
        fl  == ForceLoop(f.pid, w, 0, dc.heap[dc.ref])
    IN  [wid |-> wid, ok |-> fl.ok, d |-> dc.ref, p |-> pc.ref,
         dheap |-> [dc.heap EXCEPT ![dc.ref] = fl.d2],
         pheap |-> [pc.heap EXCEPT ![pc.ref] = [@ EXCEPT ![f.pid] = {wid}]]]

Advance(f, wid) == [f EXCEPT !.it = @ \ {wid}, !.tried = Append(@, wid)]

(* Lines 221-227: a letter of the word is not in the cell's domain: continue *)
BranchSkip ==
    /\ stack # <<>>
    /\ Top.pc = "branch"
    /\ Top.it # {}
    /\ \E c \in { Child(Top, dheap, pheap) } :
           /\ ~c.ok
           /\ stack' = SetTop(Advance(Top, c.wid))
           /\ dheap' = Live(c.dheap, DRefs(stack'))
           /\ pheap' = Live(c.pheap, PRefs(stack'))
    /\ UNCHANGED <<paths, n_cells, words_by_len, index, res, round, in_state, fix_state>>

(* Line 229: the recursive call *)
BranchRecurse ==
    /\ stack # <<>>
    /\ Top.pc = "branch"
    /\ Top.it # {}
    /\ Len(stack) < MaxDepth
    /\ \E c \in { Child(Top, dheap, pheap) } :
           /\ c.ok
           /\ stack' = Append(SetTop([Advance(Top, c.wid) EXCEPT !.pc = "call"]),
                              NewFrame(c.d, c.p))
           /\ dheap' = c.dheap
           /\ pheap' = c.pheap
    /\ UNCHANGED <<paths, n_cells, words_by_len, index, res, round, in_state, fix_state>>

(* A return of solve(): to line 229-231 of the caller, or to main (line 255) *)
Return ==
    /\ stack # <<>>
    /\ Top.pc = "return"
    /\ round = 0
    /\ LET rest == SubSeq(stack, 1, Len(stack) - 1)
       IN  /\ stack' = IF rest = <<>> THEN rest
                       ELSE [rest EXCEPT ![Len(rest)].pc =
                                IF res.none THEN "branch" ELSE "return"]
           /\ dheap' = Live(dheap, DRefs(rest))
           /\ pheap' = Live(pheap, PRefs(rest))
    /\ UNCHANGED <<paths, n_cells, words_by_len, index, res, round, in_state, fix_state>>

----------------------------------------------------------------------------
(* main: lines 241-255 *)

InitDomains == [i \in Cells |-> ALL]
InitPathCands == [pid \in PathIds |-> IF InIndex(PathLen(pid)) THEN all_mask(PathLen(pid)) ELSE {}]

Init ==
    /\ \E raw \in NonEmptySeqsUpTo(PathPool, MaxPaths), lines \in SeqsUpTo(WordPool, MaxWords) :
          /\ paths = main_paths(raw)
          /\ n_cells = main_n_cells(raw)
          /\ words_by_len = load_dictionary(lines, max_len(raw))
    /\ index = build_index(words_by_len)
    /\ dheap = << InitDomains >>
    /\ pheap = << InitPathCands >>
    /\ stack = << NewFrame(1, 1) >>
    /\ res = None
    /\ round = 0
    /\ in_state = NoState
    /\ fix_state = NoState

Next ==
    \/ PropagateStep
    \/ CheckSolved
    \/ BranchExhausted
    \/ BranchSkip
    \/ BranchRecurse
    \/ Return

Spec == Init /\ [][Next]_vars

----------------------------------------------------------------------------
(* propagate() on its own: called on a (domains, path_cands) the caller     *)
(* chooses, and called a second time on what the first call left            *)

PMaxWords == 2    \* dictionary lines

(* The paths files propagate() is exercised on *)
PropPathLists ==
    { << << <<0, 0>>, <<0, 1>> >> >>,
      << << <<0, 0>>, <<0, 1>> >>, << <<0, 1>>, <<1, 1>> >> >>,
      << << <<0, 0>>, <<0, 1>> >>, << <<1, 0>>, <<1, 1>> >> >>,
      << << <<0, 0>>, <<0, 1>> >>, << <<0, 0>>, <<0, 0>> >> >>,
      << << <<0, 1>> >>, << <<0, 0>>, <<0, 1>> >> >> }

(* The cell domains it is given: every letter, only A, only B *)
DomainPool == { ALL, {0}, {1} }

(* The candidate bitsets it is given: main's, or a single forced word ID *)
CandPool(pid) == { InitPathCands[pid], {0} }

Rerun ==
    /\ stack # <<>>
    /\ Top.pc = "check"
    /\ round = 1
    /\ round' = 2
    /\ fix_state' = State(dheap[Top.d], pheap[Top.p])
    /\ stack' = SetTop([Top EXCEPT !.pc = "propagate", !.passes = 0])
    /\ UNCHANGED <<paths, n_cells, words_by_len, index, dheap, pheap, res, in_state>>

PInit ==
    /\ \E raw \in PropPathLists, lines \in SeqsUpTo(WordPool, PMaxWords) :
          /\ paths = main_paths(raw)
          /\ n_cells = main_n_cells(raw)
          /\ words_by_len = load_dictionary(lines, max_len(raw))
    /\ index = build_index(words_by_len)
    /\ \E d \in [Cells -> DomainPool] :
          /\ dheap = << d >>
          /\ \E p \in { q \in [PathIds -> SUBSET (0 .. (PMaxWords - 1))] :
                          \A pid \in PathIds : q[pid] \in CandPool(pid) } :
                /\ pheap = << p >>
                /\ in_state = State(d, p)
    /\ stack = << NewFrame(1, 1) >>
    /\ res = None
    /\ round = 1
    /\ fix_state = NoState

PNext ==
    \/ PropagateStep
    \/ Rerun

PropSpec == PInit /\ [][PNext]_vars

----------------------------------------------------------------------------
(* Vocabulary of the properties *)

Done == stack = <<>>                       \* solve() has returned to main
Returning == stack # <<>> /\ Top.pc = "return"
Domains == dheap[Top.d]                    \* the running frame's lists
PathCands == pheap[Top.p]

(* the IDs of the words of the path's length that spell the letters a gives its cells *)
WordIdsOf(a, pid) ==
    IF ~InIndex(PathLen(pid)) THEN {}
    ELSE { wid \in all_mask(PathLen(pid)) :
             \A pos \in 1 .. PathLen(pid) :
                 words_by_len[PathLen(pid)][wid + 1][pos] = a[paths[pid][pos]] }

(* a gives every cell one letter and every path spells a dictionary word *)
ValidAssignment(a) == \A pid \in PathIds : WordIdsOf(a, pid) # {}

(* Assignments over A, B and, for a cell no word constrains, one further letter *)
Assignments == [Cells -> 0 .. 2]

(* the single letters of a fully resolved list of domains *)
LetterOf(domains) == [c \in Cells |-> CHOOSE l \in domains[c] : TRUE]

SomePathWithoutWords == \E pid \in PathIds : ~InIndex(PathLen(pid))

(* C1: whenever solve() returns a result other than None, every cell's domain in *)
(* it holds exactly one letter and every path spells, in path order, a word of   *)
(* the dictionary of the path's length.                                          *)
C1_Soundness ==
    ((Done \/ Returning) /\ ~res.none) =>
        /\ \A c \in Cells : Cardinality(res.domains[c]) = 1
        /\ ValidAssignment(LetterOf(res.domains))

(* a solution handed up from a nested call, found after branching *)
C1_Witness == Len(stack) >= 2 /\ Returning /\ ~res.none

(* C2: if some assignment of one letter per cell makes every path spell a        *)
(* dictionary word, solve() as main() calls it does not return None.             *)
C2_Completeness ==
    (Done /\ \E a \in Assignments : ValidAssignment(a)) => ~res.none

(* C3: an assignment under which every path spells a dictionary word, and whose  *)
(* letters are all in the input domains, survives propagate(): it does not       *)
(* return False, every letter is still in its cell's domain, and on return each  *)
(* path's word is in the path's candidate set.                                   *)
C3_NoOverPruning ==
    (round = 1 /\ Top.pc # "propagate") =>
        \A a \in Assignments :
            (ValidAssignment(a) /\ \A c \in Cells : a[c] \in in_state.domains[c]) =>
                /\ Top.pc = "check"
                /\ \A c \in Cells : a[c] \in Domains[c]
                /\ \A pid \in PathIds : WordIdsOf(a, pid) \subseteq PathCands[pid]

(* propagate() has returned True after tightening a domain and a candidate set,  *)
(* and a valid assignment within the input domains exists                        *)
C3_Witness ==
    /\ round = 1
    /\ Top.pc = "check"
    /\ Domains # in_state.domains
    /\ PathCands # in_state.path_cands
    /\ \E a \in Assignments :
          ValidAssignment(a) /\ \A c \in Cells : a[c] \in in_state.domains[c]

(* C4: across one pass of propagate()'s loop no cell domain and no path          *)
(* candidate bitset gains a bit.                                                 *)
C4_MonotonicShrink ==
    [][(stack # <<>> /\ Top.pc = "propagate") =>
          /\ \A c \in Cells : dheap'[Top.d][c] \subseteq dheap[Top.d][c]
          /\ \A pid \in PathIds : pheap'[Top.p][pid] \subseteq pheap[Top.p][pid]]_vars

(* C5: propagate() called again on the lists a call that returned True left      *)
(* returns True and leaves every domain and every candidate bitset as it was.    *)
C5_Idempotent ==
    round = 2 =>
        /\ Top.pc # "return"
        /\ State(Domains, PathCands) = fix_state
        /\ Top.passes <= 1

(* the second call has returned, on lists the first call had tightened *)
C5_Witness ==
    /\ round = 2
    /\ Top.pc = "check"
    /\ fix_state.domains # in_state.domains

(* C6: with a path whose length has no dictionary word, the root solve() returns *)
(* None from its first pass of propagate(): no path is selected for branching,   *)
(* no candidate word is tried, no nested call is made.                           *)
C6_NoWordsOfLength ==
    SomePathWithoutWords =>
        /\ Len(stack) <= 1
        /\ (Done \/ Returning) => res.none
        /\ stack # <<>> =>
              /\ Top.pc \in {"propagate", "return"}
              /\ Top.passes = (IF Top.pc = "return" THEN 1 ELSE 0)
              /\ Top.pid = -1
              /\ Top.tried = <<>>
              /\ Top.pc = "propagate" => (Domains = InitDomains /\ PathCands = InitPathCands)

(* main has been told None although another path has several candidate words *)
C6_Witness ==
    /\ Done
    /\ res.none
    /\ SomePathWithoutWords
    /\ \E pid \in PathIds : InIndex(PathLen(pid)) /\ Cardinality(all_mask(PathLen(pid))) > 1

(* twice the number of letters left in the domains, plus one while the          *)
(* candidate sets are not the ones the domains give                             *)
RECURSIVE SumCard(_, _)
SumCard(domains, cells) ==
    IF cells = {} THEN 0
    ELSE LET c == CHOOSE x \in cells : TRUE
         IN  Cardinality(domains[c]) + SumCard(domains, cells \ {c})

Variant(domains, path_cands) ==
    2 * SumCard(domains, Cells)
      + (IF \A pid \in PathIds : path_cands[pid] = compute_path_candidates(pid, domains)
         THEN 0 ELSE 1)

C8_DepthBound ==
    /\ Len(stack) <= NumPaths + 1
    /\ \A i, j \in 1 .. Len(stack) :
          (i < j /\ stack[i].pid # -1 /\ stack[j].pid # -1) => stack[i].pid # stack[j].pid

(* C9: once a frame's own propagate() has succeeded and it branches, its domains *)
(* and path candidates are the same lists with the same items for as long as     *)
(* the frame exists, whatever its children do.                                   *)
C9_UndoByCopy ==
    [][\A i \in 1 .. Len(stack) :
          (stack[i].pc \in {"branch", "call"} /\ i <= Len(stack')) =>
              /\ stack'[i].d = stack[i].d
              /\ stack'[i].p = stack[i].p
              /\ dheap'[stack'[i].d] = dheap[stack[i].d]
              /\ pheap'[stack'[i].p] = pheap[stack[i].p]]_vars

(* the root has moved on to a later word of its path after an earlier one was    *)
(* skipped or its child returned None, and a child frame is running on copies    *)
C9_Witness ==
    /\ Len(stack) >= 2
    /\ stack[1].pc = "call"
    /\ Len(stack[1].tried) >= 2

(* the k-th smallest element of a set of word IDs *)
RECURSIVE Ascending(_)
Ascending(x) == IF x = {} THEN <<>> ELSE <<iter_bits(x)>> \o Ascending(x \ {iter_bits(x)})

(* C10: the path a node branches on has more than one candidate, no path has a   *)
(* count above one that is smaller, and among the paths with that count it has   *)
(* the lowest index; its words are tried in increasing word-ID order; a node     *)
(* that returns a child's result returns that of the word tried last.            *)
C10_BranchSelection ==
    \A i \in 1 .. Len(stack) :
        LET f == stack[i]
            pcs == pheap[f.p]
        IN  f.pid # -1 =>
              /\ f.candidates = pcs[f.pid]
              /\ bitcount(pcs[f.pid]) > 1
              /\ \A q \in PathIds :
                    bitcount(pcs[q]) > 1 =>
                        \/ bitcount(pcs[f.pid]) < bitcount(pcs[q])
                        \/ bitcount(pcs[f.pid]) = bitcount(pcs[q]) /\ f.pid <= q
              /\ f.tried = SubSeq(Ascending(f.candidates), 1, Len(f.tried))
              /\ f.it = f.candidates \ { f.tried[k] : k \in 1 .. Len(f.tried) }
              /\ (f.pc = "return" /\ ~res.none) =>
                    /\ f.tried # <<>>
                    /\ f.tried[Len(f.tried)] \in WordIdsOf(LetterOf(res.domains), f.pid)

(* a node returns the result of its second word, with two paths tied on count *)
C10_Witness ==
    /\ Returning
    /\ ~res.none
    /\ Len(Top.tried) >= 2
    /\ \E q \in PathIds : q # Top.pid /\ bitcount(PathCands[q]) = bitcount(PathCands[Top.pid])

====
